---- MODULE Spec2Model ----
(***************************************************************************)
(* Model of gemini-mcp:                                                    *)
(*  - the provider client (providers/gemini.ts): generateContent with      *)
(*    retryWithBackoff, the file and embedding operations with             *)
(*    fetchWithRetry, and the response utilities;                          *)
(*  - the media fetcher (utils/media.ts) and the request mappers           *)
(*    mapContentToGeminiParts and mapMessagesToGeminiContents (index.ts);  *)
(*  - the handler of tool calls (index.ts).                                *)
(*                                                                         *)
(* Text is modelled as a sequence of tokens.  A digit is always a token of *)
(* its own; a token that is not a digit stands for a run of characters     *)
(* that contains no digit.  String.includes is substring search over the   *)
(* tokens.                                                                 *)
(***************************************************************************)
EXTENDS Integers, Sequences, FiniteSets, TLC

VARIABLES
    op,         \* the client method being executed
    pc,         \* "idle" | "request" | "sleep" | "returned" | "thrown"
    attempt,    \* the loop variable `attempt`
    lastError,  \* the local `lastError`
    delay,      \* the delay of the pending setTimeout, 0 when none
    result,     \* the value returned, or the value thrown
    last,       \* what the fetch of the current attempt produced
    requests,   \* number of upstream requests issued by this call
    waits,      \* the backoff delays this call has slept, in order
    fn,         \* the mapping utility that was called, "none" before
    input,      \* its arguments
    output,     \* what it returned or threw
    hpc,        \* the tool-call handler: "idle" | "awaiting" | "done"
    request,    \* the tool call: name, arguments, and whether the key is set
    settled,    \* what the awaited call produced
    envelope,   \* what the handler produced
    events,     \* the events recorded by the observability collector
    upstream,   \* the client methods the handler invoked, with their request
    fetched,    \* number of media requests the handler issued
    calls       \* the generation calls in flight at the same time, each with
                \* the locals of its retryWithBackoff and what it has seen

clientVars ==
    <<op, pc, attempt, lastError, delay, result, last, requests, waits>>

mapVars == <<fn, input, output>>

toolVars ==
    <<hpc, request, settled, envelope, events, upstream, fetched, calls>>

vars == <<clientVars, mapVars, toolVars>>

----------------------------------------------------------------------------
(* Bounds of the model *)

\* longest response body / exception text, in tokens
MaxBodyLen == 3

----------------------------------------------------------------------------
(* Text *)

Texts == UNION {[1..n -> {"4", "0", "5"}] : n \in 0..MaxBodyLen}

\* String.prototype.includes
Includes(s, p) ==
    \E i \in 1..(Len(s) - Len(p) + 1) : SubSeq(s, i, i + Len(p) - 1) = p

\* `${response.status}` of a three digit status code
Digits(n) ==
    <<ToString(n \div 100), ToString((n \div 10) % 10), ToString(n % 10)>>

\* JSON.parse accepts a digit string when it is a JSON number: not empty and
\* without a leading zero
JsonValid(text) ==
    /\ Len(text) > 0
    /\ (Len(text) > 1 => Head(text) # "0")

----------------------------------------------------------------------------
(* Values *)

Undefined == [kind |-> "undefined"]

EmptyObject == [kind |-> "object"]

JsonValue(text) == [kind |-> "json", text |-> text]

\* response.ok
Ok(status) == status >= 200 /\ status < 300

\* what one fetch can produce: a response, a rejected promise (network
\* failure), or the rejection caused by the abort signal
HttpOutcomes ==
    [kind : {"http"}, status : {200, 400, 404, 405, 429, 503}, text : Texts]

\* a network failure with its reason text
NetworkOutcomes ==
    [kind : {"network"}, status : {0}, text : {t \in Texts : Len(t) <= 1}]

\* the AbortError raised by the fetch implementation, with its message
AbortOutcomes ==
    [kind : {"abort"}, status : {0},
     text : {<<"The operation was aborted.">>,
             <<"The user aborted a request.">>}]

NoOutcome == [kind |-> "none", status |-> 0, text |-> <<>>]

FetchOps == {"uploadFile", "listFiles", "deleteFile", "generateEmbeddings"}

\* an Error object
Err(kind, status, message) ==
    [kind |-> kind, status |-> status, message |-> message]

\* the rejection of fetch() itself
FetchRejection(o) ==
    IF o.kind = "abort"
    THEN Err("AbortError", 0, o.text)
    ELSE Err("FetchError", 0, <<"request failed, reason: ">> \o o.text)

\* the SyntaxError of JSON.parse / response.json()
SyntaxError == Err("SyntaxError", 0, <<"Unexpected token in JSON">>)

----------------------------------------------------------------------------
(* generateContent: the operation passed to retryWithBackoff *)

\* the default of the maxRetries parameter of retryWithBackoff
maxRetriesDefault == 3

\* new Error(`${response.status} ${response.statusText} - ${errorText}`)
HttpError(o) ==
    Err("Error", 0, Digits(o.status) \o <<" statusText - ">> \o o.text)

\* the operation resolves
OperationSucceeds(o) == o.kind = "http" /\ Ok(o.status) /\ JsonValid(o.text)

\* the error the operation rejects with
OperationError(o) ==
    IF o.kind # "http" THEN FetchRejection(o)
    ELSE IF ~Ok(o.status) THEN HttpError(o)
    ELSE SyntaxError

DontRetry_Never(message) == FALSE

\* error.message.includes('400')
DontRetry(message) == Includes(message, <<"4", "0", "0">>)

LastAttempt_Never(a) == FALSE

\* attempt === maxRetries
LastAttempt(a) == a = maxRetriesDefault

ShouldRetry_Only429(message) == Includes(message, <<"4", "2", "9">>)

ShouldRetry_Always(message) == TRUE

\* error.message.includes('429') || error.message.includes('5')
ShouldRetry(message) ==
    Includes(message, <<"4", "2", "9">>) \/ Includes(message, <<"5">>)

RetryDelay_Linear(a) == (a + 1) * 1000

\* Math.pow(2, attempt) * 1000
RetryDelay(a) == (2 ^ a) * 1000

----------------------------------------------------------------------------
(* fetchWithRetry *)

\* private readonly maxRetries = 3
maxRetries == 3

initialBackoffMs == 500

Backoff_Linear(a) == initialBackoffMs * (a + 1)

\* this.initialBackoffMs * Math.pow(2, attempt)
Backoff(a) == initialBackoffMs * (2 ^ a)

\* res.status === 429 || (res.status >= 500 && res.status < 600)
RetryStatus(status) == status = 429 \/ (status >= 500 /\ status < 600)

ParseJson_Always(o) == TRUE

\* the parseJson argument: deleteFile passes false
ParseJson(o) == o # "deleteFile"

\* new Error(`Gemini API error ${code}...: ${message}`) with err.status set;
\* a body that is a JSON number has no error member, so code is the status
\* and message is the status text
ApiError(o) ==
    Err("Error", o.status,
        <<"Gemini API error ">> \o Digits(o.status) \o <<": statusText">>)

\* the catch block retries while attempt < this.maxRetries
CatchRetries(a) == a < maxRetries

----------------------------------------------------------------------------
(* Actions *)

\* most tool invocations in flight at the same time
MaxCalls == 2

Invocations == 1..MaxCalls

Init ==
    /\ op = "none"
    /\ pc = "idle"
    /\ attempt = 0
    /\ lastError = Undefined
    /\ delay = 0
    /\ result = Undefined
    /\ last = NoOutcome
    /\ requests = 0
    /\ waits = <<>>
    /\ fn = "none"
    /\ input = <<>>
    /\ output = Undefined
    /\ hpc = "idle"
    /\ request = Undefined
    /\ settled = Undefined
    /\ envelope = Undefined
    /\ events = <<>>
    /\ upstream = <<>>
    /\ fetched = 0
    /\ calls = [i \in Invocations |->
                    [pc |-> "idle", attempt |-> 0, lastError |-> Undefined,
                     delay |-> 0, result |-> Undefined, requests |-> 0,
                     waits |-> <<>>, seen |-> <<>>]]

\* a client method is called: the retry loop starts with attempt = 0
Call(o) ==
    /\ pc \in {"idle", "returned", "thrown"}
    /\ op' = o
    /\ pc' = "request"
    /\ attempt' = 0
    /\ lastError' = Undefined
    /\ delay' = 0
    /\ result' = Undefined
    /\ last' = NoOutcome
    /\ requests' = 0
    /\ waits' = <<>>
    /\ UNCHANGED <<mapVars, toolVars>>

Return(v) ==
    /\ pc' = "returned"
    /\ result' = v
    /\ delay' = 0

Throw(e) ==
    /\ pc' = "thrown"
    /\ result' = e
    /\ delay' = 0

Sleep(ms) ==
    /\ pc' = "sleep"
    /\ delay' = ms
    /\ UNCHANGED result

\* one iteration of the for loop of retryWithBackoff, up to its await
GenerateAttempt(o) ==
    /\ op = "generateContent"
    /\ pc = "request"
    /\ requests' = requests + 1
    /\ last' = o
    /\ UNCHANGED <<op, attempt, waits, mapVars, toolVars>>
    /\ IF OperationSucceeds(o)
       THEN /\ Return(JsonValue(o.text))
            /\ UNCHANGED lastError
       ELSE LET error == OperationError(o) IN
            /\ lastError' = error
            /\ IF DontRetry(error.message) THEN Throw(error)
               ELSE IF LastAttempt(attempt) THEN Throw(error)
               ELSE IF ~ShouldRetry(error.message) THEN Throw(error)
               ELSE Sleep(RetryDelay(attempt))

\* one iteration of the while loop of fetchWithRetry, up to its await
FetchAttempt(o) ==
    /\ op \in FetchOps
    /\ pc = "request"
    /\ o.kind # "abort"
    /\ requests' = requests + 1
    /\ last' = o
    /\ UNCHANGED <<op, attempt, waits, mapVars, toolVars>>
    /\ LET Catch(err) ==
               /\ lastError' = err
               /\ IF CatchRetries(attempt)
                  THEN Sleep(Backoff(attempt))
                  ELSE Throw(err)
       IN  IF o.kind # "http" THEN Catch(FetchRejection(o))
           ELSE IF Ok(o.status)
           THEN IF ~ParseJson(op)
                THEN Return(Undefined) /\ UNCHANGED lastError
                ELSE IF o.text = <<>>
                THEN Return(EmptyObject) /\ UNCHANGED lastError
                ELSE IF JsonValid(o.text)
                THEN Return(JsonValue(o.text)) /\ UNCHANGED lastError
                ELSE Catch(SyntaxError)
           ELSE IF RetryStatus(o.status)
           THEN Sleep(Backoff(attempt)) /\ UNCHANGED lastError
           ELSE Catch(ApiError(o))

\* the timer of the backoff fires: attempt++ and the loop condition,
\* `attempt <= maxRetries` in retryWithBackoff, `attempt <= this.maxRetries`
\* in fetchWithRetry
Wake ==
    /\ pc = "sleep"
    /\ waits' = Append(waits, delay)
    /\ attempt' = attempt + 1
    /\ last' = NoOutcome
    /\ UNCHANGED <<op, lastError, requests, mapVars, toolVars>>
    /\ IF attempt + 1 <= (IF op = "generateContent" THEN maxRetriesDefault
                           ELSE maxRetries)
       THEN /\ pc' = "request"
            /\ delay' = 0
            /\ UNCHANGED result
       ELSE Throw(lastError)

Next ==
    \/ \E o \in {"generateContent"} \cup FetchOps : Call(o)
    \/ \E o \in HttpOutcomes \cup NetworkOutcomes \cup AbortOutcomes :
          GenerateAttempt(o)
    \/ \E o \in HttpOutcomes \cup NetworkOutcomes : FetchAttempt(o)
    \/ Wake

Spec == Init /\ [][Next]_vars

----------------------------------------------------------------------------
(* utils/media.ts *)

\* validateDataSize(base64Data, maxSizeMB = 20)
maxSizeMB == 20

MiB == 1024 * 1024

\* a base64 string: what it stands for and its length in characters
Base64(tag, len) == [tag |-> tag, len |-> len]

ValidateDataSize_Lax(data) == TRUE

\* (base64Data.length * 3) / 4 / (1024 * 1024) <= maxSizeMB
ValidateDataSize(data) == data.len * 3 <= maxSizeMB * MiB * 4

\* the longest base64 string validateDataSize accepts, and the next length
LargestValidLen == 27962026

RECURSIVE Join(_, _)
\* Array.prototype.join
Join(list, sep) ==
    IF list = <<>> THEN <<>>
    ELSE IF Len(list) = 1 THEN list[1]
    ELSE list[1] \o sep \o Join(Tail(list), sep)

\* the host of a URL: an IPv4 address (four octets), an IPv6 address (eight
\* groups) or a domain name (its labels)
IPv4(a, b, c, d) == [kind |-> "ipv4", octets |-> <<a, b, c, d>>]

IPv6(groups) == [kind |-> "ipv6", groups |-> groups]

Name(labels) == [kind |-> "name", labels |-> labels]

HexDigits ==
    <<"0", "1", "2", "3", "4", "5", "6", "7", "8", "9",
      "a", "b", "c", "d", "e", "f">>

RECURSIVE Decimal(_)
\* the decimal numeral of n
Decimal(n) ==
    IF n < 10 THEN <<HexDigits[n + 1]>>
    ELSE Decimal(n \div 10) \o <<HexDigits[(n % 10) + 1]>>

RECURSIVE Hex(_)
\* the shortest lower-case hexadecimal numeral of n
Hex(n) ==
    IF n < 16 THEN <<HexDigits[n + 1]>>
    ELSE Hex(n \div 16) \o <<HexDigits[(n % 16) + 1]>>

\* the number of zero groups from position i on
RECURSIVE ZeroRun(_, _)
ZeroRun(groups, i) ==
    IF i > Len(groups) \/ groups[i] # 0 THEN 0
    ELSE 1 + ZeroRun(groups, i + 1)

\* the URL host serializer for an IPv6 address: the first longest run of two
\* or more zero groups is written "::"
SerializeIPv6(groups) ==
    LET longest == CHOOSE n \in 0..8 :
                       /\ \E i \in 1..8 : ZeroRun(groups, i) = n
                       /\ \A i \in 1..8 : ZeroRun(groups, i) <= n
        start == CHOOSE i \in 1..8 :
                     /\ ZeroRun(groups, i) = longest
                     /\ \A j \in 1..(i - 1) : ZeroRun(groups, j) < longest
        Pieces(from, to) ==
            Join([k \in 1..(to - from + 1) |-> Hex(groups[from + k - 1])],
                 <<":">>)
    IN  IF longest < 2 THEN Pieces(1, 8)
        ELSE Pieces(1, start - 1) \o <<":", ":">>
                 \o Pieces(start + longest, 8)

\* new URL(href).hostname: dotted decimal for an IPv4 address, the address in
\* brackets for an IPv6 address, the labels joined by dots for a name
Hostname(host) ==
    CASE host.kind = "ipv4" ->
            Join([i \in 1..4 |-> Decimal(host.octets[i])], <<".">>)
      [] host.kind = "ipv6" -> <<"[">> \o SerializeIPv6(host.groups) \o <<"]">>
      [] host.kind = "name" ->
            Join([i \in 1..Len(host.labels) |-> <<host.labels[i]>>], <<".">>)

\* new URL(href): the strings the model takes as URLs, and what the parser
\* makes of them
RECURSIVE Concat(_)
\* the string made of the pieces of text
Concat(text) ==
    IF text = <<>> THEN "" ELSE text[1] \o Concat(Tail(text))

\* a string that starts with "data:", as the pieces that follow the prefix:
\* ";", ",", a line terminator, or a run of other characters
DataUrl(text) ==
    [href |-> "data:" \o Concat(text), form |-> "data", text |-> text]

WebUrl(href, protocol, host) ==
    [href |-> href, form |-> "url", protocol |-> protocol, host |-> host,
     hostname |-> Hostname(host)]

BadUrl(href) == [href |-> href, form |-> "invalid"]

NearLimitUrl == WebUrl("https://example.com/19mb.png", "https:",
                       Name(<<"example", "com">>))

None == "none"

\* the data URLs of dataUrlTests, and data URLs put together from a media
\* type, with or without a parameter, the base64 marker and a payload: base64
\* text, text with a character outside the base64 alphabet, and text of two
\* lines
DataUrls ==
    {DataUrl(<<"text/plain", ";", "base64", ",", "SGVsbG8gd29ybGQ=">>),
     DataUrl(<<"text/plain", ",", "Hello%20world">>),
     DataUrl(<<"invalid-format">>)} \cup
    {DataUrl(mime \o marker \o <<",">> \o payload) :
         mime \in {<<>>, <<"image/png">>,
                   <<"text/plain", ";", "charset=utf-8">>},
         marker \in {<<>>, <<";", "base64">>},
         payload \in {<<>>, <<"AAAA">>, <<"AA!A">>, <<"A">>,
                      <<"AAAA", "\n", "BBBB">>}}

ImageUrl == WebUrl("https://example.com/image.png", "https:",
                   Name(<<"example", "com">>))

MissingUrl == WebUrl("https://example.com/missing", "https:",
                     Name(<<"example", "com">>))

DownUrl == WebUrl("http://down.example.com/a.mp3", "http:",
                  Name(<<"down", "example", "com">>))

SlowUrl == WebUrl("https://slow.example.com/v.mp4", "https:",
                  Name(<<"slow", "example", "com">>))

HugeUrl == WebUrl("https://example.com/huge.png", "https:",
                  Name(<<"example", "com">>))

LoopbackUrl == WebUrl("http://127.0.0.1/x", "http:", IPv4(127, 0, 0, 1))

FtpUrl == WebUrl("ftp://example.com", "ftp:", Name(<<"example", "com">>))

\* the URLs of the model: data URLs, URLs the network serves in one way each,
\* and the blocked and the allowed URLs of ssrfTestCases
Urls ==
    {DataUrl(<<"image/png", ";", "base64", ",", "iVBORw0KGgo=">>),
     DataUrl(<<"text/plain", ",", "hello">>), DataUrl(<<"image/png">>),
     ImageUrl, MissingUrl, DownUrl, SlowUrl, HugeUrl, NearLimitUrl,
     LoopbackUrl,
     WebUrl("http://localhost/x", "http:", Name(<<"localhost">>)),
     WebUrl("http://127.0.0.1", "http:", IPv4(127, 0, 0, 1)),
     WebUrl("http://localhost", "http:", Name(<<"localhost">>)),
     WebUrl("http://169.254.169.254", "http:", IPv4(169, 254, 169, 254)),
     WebUrl("http://10.0.0.1", "http:", IPv4(10, 0, 0, 1)),
     WebUrl("http://192.168.1.1", "http:", IPv4(192, 168, 1, 1)),
     WebUrl("http://172.16.0.1", "http:", IPv4(172, 16, 0, 1)),
     FtpUrl,
     WebUrl("file:///etc/passwd", "file:", Name(<<>>)),
     WebUrl("gopher://example.com", "gopher:", Name(<<"example", "com">>)),
     BadUrl("invalid-url"), BadUrl(""),
     WebUrl("https://www.google.com", "https:",
            Name(<<"www", "google", "com">>)),
     WebUrl("http://example.com", "http:", Name(<<"example", "com">>)),
     WebUrl("https://api.example.com/image.jpg", "https:",
            Name(<<"api", "example", "com">>))}

StartsWith(h, prefix) ==
    Len(h) >= Len(prefix) /\ SubSeq(h, 1, Len(prefix)) = prefix

DISALLOWED_HOSTNAMES ==
    {<<"localhost">>, <<"0", ".", "0", ".", "0", ".", "0">>,
     <<"metadata", ".", "google", ".", "internal">>,
     <<"1", "6", "9", ".", "2", "5", "4", ".", "1", "6", "9", ".",
       "2", "5", "4">>}

\* DISALLOWED_NETWORKS: /^127\./, /^10\./, /^192\.168\./,
\* /^172\.(1[6-9]|2[0-9]|3[01])\./, /^169\.254\./, /^::1$/, /^fc00::/,
\* /^fe80::/ tested against the hostname
DISALLOWED_NETWORKS(h) ==
    \/ StartsWith(h, <<"1", "2", "7", ".">>)
    \/ StartsWith(h, <<"1", "0", ".">>)
    \/ StartsWith(h, <<"1", "9", "2", ".", "1", "6", "8", ".">>)
    \/ /\ StartsWith(h, <<"1", "7", "2", ".">>)
       /\ Len(h) >= 7
       /\ \/ h[5] = "1" /\ h[6] \in {"6", "7", "8", "9"}
          \/ h[5] = "2" /\ h[6] \in {"0", "1", "2", "3", "4", "5", "6", "7",
                                     "8", "9"}
          \/ h[5] = "3" /\ h[6] \in {"0", "1"}
       /\ h[7] = "."
    \/ StartsWith(h, <<"1", "6", "9", ".", "2", "5", "4", ".">>)
    \/ h = <<":", ":", "1">>
    \/ StartsWith(h, <<"f", "c", "0", "0", ":", ":">>)
    \/ StartsWith(h, <<"f", "e", "8", "0", ":", ":">>)

ValidateUrl_AnyProtocol(u) ==
    IF u.form = "invalid"
    THEN Err("Error", 0, <<"Invalid URL: ", u.href>>)
    ELSE IF u.hostname \in DISALLOWED_HOSTNAMES
    THEN Err("Error", 0, <<"Access to hostname '">> \o u.hostname
                             \o <<"' is not allowed">>)
    ELSE IF DISALLOWED_NETWORKS(u.hostname)
    THEN Err("Error", 0, <<"Access to IP range '">> \o u.hostname
                             \o <<"' is not allowed">>)
    ELSE Undefined

\* validateUrl: the error it throws, or Undefined
ValidateUrl(u) ==
    IF u.form = "invalid"
    THEN Err("Error", 0, <<"Invalid URL: ", u.href>>)
    ELSE IF u.protocol \notin {"http:", "https:"}
    THEN Err("Error", 0, <<"Unsupported protocol: ", u.protocol,
                           ". Only HTTP and HTTPS are allowed.">>)
    ELSE IF u.hostname \in DISALLOWED_HOSTNAMES
    THEN Err("Error", 0, <<"Access to hostname '">> \o u.hostname
                             \o <<"' is not allowed">>)
    ELSE IF DISALLOWED_NETWORKS(u.hostname)
    THEN Err("Error", 0, <<"Access to IP range '">> \o u.hostname
                             \o <<"' is not allowed">>)
    ELSE Undefined

\* the URLs validateUrl is called with: IPv4 addresses at the edges of the
\* reserved ranges, IPv6 addresses with first group 0, 2001, fbff, fc00,
\* fc01, fd00, fdff, fe00, fe7f, fe80, fe81, febf or fec0, and names
HostUrls ==
    {WebUrl(<<p, "//">> \o Hostname(h) \o <<"/">>, p, h) :
         p \in {"http:", "https:"},
         h \in {IPv4(a, b, 0, 1) :
                    a \in {8, 10, 11, 100, 126, 127, 128, 169, 172, 192, 193},
                    b \in {0, 15, 16, 31, 32, 167, 168, 169, 253, 254, 255}}
               \cup {IPv6(<<g, 0, 0, 0, m, 0, 0, l>>) :
                         g \in {0, 8193, 64511, 64512, 64513, 64768, 65023,
                                65024, 65151, 65152, 65153, 65215, 65216},
                         m \in {0, 1}, l \in {0, 1, 2}}
               \cup {Name(<<"example", "com">>), Name(<<"localhost">>),
                     Name(<<"metadata", "google", "internal">>)}}

\* validateUrl is called
ValidateCall ==
    /\ fn = "none"
    /\ \E u \in HostUrls :
           /\ fn' = "validateUrl"
           /\ input' = <<u>>
           /\ output' = ValidateUrl(u)
    /\ UNCHANGED <<clientVars, toolVars>>

\* a resolved InlineDataResult, a rejection, and the number of network
\* requests the call has issued
Resolved(data, mimeType, n) ==
    [ok |-> TRUE, data |-> data, mimeType |-> mimeType, requests |-> n]

Rejected(error, n) == [ok |-> FALSE, error |-> error, requests |-> n]

RECURSIVE MimeEnd(_, _)
\* ([^;,]+)? from position i: the position after the longest run of
\* characters other than ";" and ","
MimeEnd(text, i) ==
    IF i > Len(text) \/ text[i] \in {";", ","} THEN i
    ELSE MimeEnd(text, i + 1)

RECURSIVE FirstLine(_)
\* (.*): the characters up to the first line terminator
FirstLine(text) ==
    IF text = <<>> \/ text[1] \in {"\n", "\r"} THEN <<>>
    ELSE <<text[1]>> \o FirstLine(Tail(text))

\* Buffer.from(data, 'base64') throws: the decoder skips the characters
\* outside the base64 alphabet and throws for no string
BufferFromThrows(data) == FALSE

\* parseDataUrl: dataUrl.match(/^data:([^;,]+)?(;base64)?,(.*)/)
ParseDataUrl(u) ==
    LET text == u.text
        i == MimeEnd(text, 1)
        marked == /\ i + 2 <= Len(text)
                  /\ SubSeq(text, i, i + 2) = <<";", "base64", ",">>
        comma == IF marked THEN i + 2 ELSE i
        matched == comma <= Len(text) /\ text[comma] = ","
        data == FirstLine(SubSeq(text, comma + 1, Len(text)))
    IN  IF ~matched
        THEN Rejected(Err("Error", 0, <<"Invalid data URL format">>), 0)
        ELSE IF ~marked
        THEN Rejected(Err("Error", 0,
                          <<"Only base64-encoded data URLs are supported">>),
                      0)
        ELSE IF BufferFromThrows(data)
        THEN Rejected(Err("Error", 0,
                          <<"Invalid base64 data in data URL">>), 0)
        ELSE Resolved(Base64(Concat(data), Len(Concat(data))),
                      IF i = 1 THEN "application/octet-stream"
                      ELSE Concat(SubSeq(text, 1, i - 1)), 0)

NoAnswer == [contentType |-> None, sniffed |-> None, status |-> 0, bytes |-> 0]

\* what the network does with the request of fetchAsInlineData: a response
\* with its status, body size, Content-Type header and the type file-type
\* sniffs; a network failure; or no answer within 30 seconds
MediaReplies ==
    [kind : {"http"}, status : {200, 404},
     bytes : {3, 20971519, 20971520, 20971521, 26214401},
     contentType : {None, "image/png"}, sniffed : {None, "image/jpeg"}]
        \cup {[kind |-> k] @@ NoAnswer : k \in {"network", "abort"}}

\* sizeMB.toFixed(2)
ToFixed2(bytes) ==
    LET hundredths == ((bytes % MiB) * 100 + MiB \div 2) \div MiB
        whole == bytes \div MiB + (IF hundredths = 100 THEN 1 ELSE 0)
        cents == hundredths % 100
    IN  Decimal(whole) \o <<".">> \o Decimal(cents \div 10)
            \o Decimal(cents % 10)

\* Buffer.from(uint8Array).toString("base64")
ToBase64(href, bytes) == Base64(href, 4 * ((bytes + 2) \div 3))

TimeoutError_Raw(u) == Err("AbortError", 0, <<"The operation was aborted.">>)

\* error.name === 'AbortError': new Error(`Timeout fetching media from ${url}`)
TimeoutError(u) == Err("Error", 0, <<"Timeout fetching media from ", u.href>>)

\* fetchAsInlineData(url, mimeHint) when the network answers with reply
FetchAsInlineData(u, mimeHint, reply) ==
    IF u.form = "data" THEN ParseDataUrl(u)
    ELSE IF ValidateUrl(u) # Undefined THEN Rejected(ValidateUrl(u), 0)
    ELSE IF reply.kind = "abort" THEN Rejected(TimeoutError(u), 1)
    ELSE IF reply.kind = "network"
    THEN Rejected(Err("FetchError", 0, <<"request failed">>), 1)
    ELSE IF ~Ok(reply.status)
    THEN Rejected(Err("Error", 0,
                      <<"Failed to fetch media: ", u.href, " - ">>
                          \o Digits(reply.status) \o <<" statusText">>), 1)
    ELSE IF reply.bytes > 25 * MiB          \* size: 25 * 1024 * 1024
    THEN Rejected(Err("FetchError", 0, <<"content size over limit">>), 1)
    ELSE IF reply.bytes > 20 * MiB          \* sizeMB > 20
    THEN Rejected(Err("Error", 0,
                      <<"Media file too large: ">> \o ToFixed2(reply.bytes)
                          \o <<" MB (limit: 20 MB)">>), 1)
    ELSE Resolved(ToBase64(u.href, reply.bytes),
                  IF mimeHint # None THEN mimeHint
                  ELSE IF reply.contentType # None THEN reply.contentType
                  ELSE IF reply.sniffed # None THEN reply.sniffed
                  ELSE "application/octet-stream", 1)

\* fetchAsInlineData is called
FetchCall ==
    /\ fn = "none"
    /\ \E u \in Urls \cup DataUrls, mimeHint \in {None, "image/webp"},
          reply \in MediaReplies :
           /\ fn' = "fetchAsInlineData"
           /\ input' = <<u, mimeHint, reply>>
           /\ output' = FetchAsInlineData(u, mimeHint, reply)
    /\ UNCHANGED <<clientVars, toolVars>>


----------------------------------------------------------------------------
(* index.ts: request mapping utilities *)

\* longest list of content parts
MaxParts == 3

\* longest list of messages
MaxMessages == 3

\* what the network answers for each URL while a request is mapped
Served(u) ==
    LET Response(status, bytes, contentType) ==
            [kind |-> "http", status |-> status, bytes |-> bytes,
             contentType |-> contentType, sniffed |-> None]
    IN  CASE u = ImageUrl -> Response(200, 3, "image/png")
          [] u = MissingUrl -> Response(404, 3, None)
          [] u = HugeUrl -> Response(200, 20971521, "image/png")
          [] u = NearLimitUrl -> Response(200, 20971519, "image/png")
          [] u = SlowUrl -> [kind |-> "abort"] @@ NoAnswer
          [] OTHER -> [kind |-> "network"] @@ NoAnswer

\* content: a string or an array of content parts
Str(text) == [kind |-> "string", text |-> text]

Arr(parts) == [kind |-> "array", parts |-> parts]

TextPart(text) == [type |-> "text", text |-> text]

UrlPart(type, u) == [type |-> type, url |-> u, mimeType |-> None]

InlinePart(data) ==
    [type |-> "inline_data", data |-> data, mimeType |-> "image/png"]

FilePart == [type |-> "file_uri", uri |-> "files/abc", mimeType |-> None]

\* a part whose type is none of the six
UnknownPart == [type |-> "sticker"]

SmallData == Base64("AAAA", 4)

BigData == Base64("big", LargestValidLen + 1)

MediaTypes == {"image_url", "audio_url", "video_url"}

\* the parts of GeminiPart
GText(text) == [text |-> text]

GInline(data, mimeType) ==
    [inlineData |-> [data |-> data, mimeType |-> mimeType]]

GFile(uri, mimeType) == [fileData |-> [fileUri |-> uri, mimeType |-> mimeType]]

\* `[Error loading media from ${part.url}: ${error}]`
LoadErrorText(u, error) ==
    <<"[Error loading media from ", u.href, ": ", error.kind, ": ">>
        \o error.message \o <<"]">>

\* what a mapping utility produced: the value returned, or the error thrown,
\* and the number of network requests it issued
Mapped(value, n) == [threw |-> FALSE, value |-> value, requests |-> n]

Threw(error, n) == [threw |-> TRUE, error |-> error, requests |-> n]

\* the try block of the image_url, audio_url and video_url case
TryMedia(part, r) ==
    IF ~r.ok THEN Threw(r.error, r.requests)
    ELSE IF ~ValidateDataSize(r.data)
    THEN Threw(Err("Error", 0, <<"Media file too large: ", part.url.href>>),
               r.requests)
    ELSE Mapped(<<GInline(r.data, r.mimeType)>>, r.requests)

CatchMedia_Rethrow(part, t) == t

\* its catch block: "Add as text error instead of failing completely"
CatchMedia(part, t) ==
    IF t.threw
    THEN Mapped(<<GText(LoadErrorText(part.url, t.error))>>, t.requests)
    ELSE t

MediaParts_Drop(part, r) ==
    IF TryMedia(part, r).threw THEN Mapped(<<>>, r.requests)
    ELSE TryMedia(part, r)

\* the parts the case pushes
MediaParts(part, r) == CatchMedia(part, TryMedia(part, r))

RECURSIVE MapPartsFrom(_, _, _, _)
\* the for loop of mapContentToGeminiParts from part i on
MapPartsFrom(content, i, parts, n) ==
    IF i > Len(content) THEN Mapped(parts, n)
    ELSE LET part == content[i] IN
         CASE part.type = "text" ->
                MapPartsFrom(content, i + 1,
                             Append(parts, GText(part.text)), n)
           [] part.type \in MediaTypes ->
                LET r == FetchAsInlineData(part.url, part.mimeType,
                                           Served(part.url))
                    m == MediaParts(part, r)
                IN  IF m.threw THEN Threw(m.error, n + m.requests)
                    ELSE MapPartsFrom(content, i + 1, parts \o m.value,
                                      n + m.requests)
           [] part.type = "inline_data" ->
                IF ~ValidateDataSize(part.data)
                THEN Threw(Err("Error", 0, <<"Inline data too large">>), n)
                ELSE MapPartsFrom(content, i + 1,
                                  Append(parts,
                                         GInline(part.data, part.mimeType)),
                                  n)
           [] part.type = "file_uri" ->
                MapPartsFrom(content, i + 1,
                             Append(parts, GFile(part.uri, part.mimeType)), n)
           [] OTHER -> MapPartsFrom(content, i + 1, parts, n)

\* mapContentToGeminiParts
MapContentToGeminiParts(content) ==
    IF content.kind = "string" THEN Mapped(<<GText(content.text)>>, 0)
    ELSE MapPartsFrom(content.parts, 1, <<>>, 0)

\* MessageContent: strings, and lists of content parts
Contents ==
    {Str(t) : t \in {<<>>, <<" ">>, <<"a">>, <<" ", "b", " ">>}}
        \cup {Arr(l) :
                  l \in UNION {[1..n ->
                                    {TextPart(<<"a">>),
                                     TextPart(<<" ", "b", " ">>),
                                     TextPart(<<>>),
                                     UrlPart("image_url", ImageUrl),
                                     UrlPart("image_url", MissingUrl),
                                     UrlPart("image_url", HugeUrl),
                                     UrlPart("image_url", NearLimitUrl),
                                     UrlPart("image_url", LoopbackUrl),
                                     UrlPart("audio_url", DownUrl),
                                     UrlPart("video_url", SlowUrl),
                                     InlinePart(SmallData),
                                     InlinePart(Base64("limit",
                                                       LargestValidLen)),
                                     InlinePart(BigData), FilePart,
                                     UnknownPart}] : n \in 0..MaxParts}}

\* mapContentToGeminiParts is called
MapContentCall ==
    /\ fn = "none"
    /\ \E content \in Contents :
           /\ fn' = "mapContentToGeminiParts"
           /\ input' = <<content>>
           /\ output' = MapContentToGeminiParts(content)
    /\ UNCHANGED <<clientVars, toolVars>>

Roles == {"user", "assistant", "model", "system"}

Message(role, content) == [role |-> role, content |-> content]

IsSpace(c) == c \in {" ", "\n", "\t"}

RECURSIVE TrimStart(_)
TrimStart(t) ==
    IF t # <<>> /\ IsSpace(Head(t)) THEN TrimStart(Tail(t)) ELSE t

RECURSIVE TrimEnd(_)
TrimEnd(t) ==
    IF t # <<>> /\ IsSpace(t[Len(t)])
    THEN TrimEnd(SubSeq(t, 1, Len(t) - 1))
    ELSE t

\* String.prototype.trim
Trim(t) == TrimEnd(TrimStart(t))

\* message.content.find(p => p.type === 'text')?.text || ''
FirstText(parts) ==
    LET texts == SelectSeq(parts, LAMBDA p : p.type = "text")
    IN  IF texts = <<>> THEN <<>> ELSE texts[1].text

MessageText_AllTexts(content) ==
    IF content.kind = "string" THEN content.text
    ELSE LET texts == SelectSeq(content.parts, LAMBDA p : p.type = "text")
         IN  Join([i \in 1..Len(texts) |-> texts[i].text], <<>>)

\* messageText of a system message
MessageText(content) ==
    IF content.kind = "string" THEN content.text ELSE FirstText(content.parts)

GeminiRole_Same(role) == role

\* message.role === 'assistant' ? 'model' : message.role
GeminiRole(role) == IF role = "assistant" THEN "model" ELSE role

KeepTurn_Always(parts) == TRUE

\* parts.length > 0
KeepTurn(parts) == Len(parts) > 0

\* the system_instruction returned for the collected system texts
SystemInstruction(systemMessages) ==
    LET finalSystemText == Join(systemMessages, <<"\n\n">>)
    IN  IF Len(systemMessages) > 0 /\ finalSystemText # <<>>
        THEN [text |-> finalSystemText]
        ELSE Undefined

RECURSIVE MapMessagesFrom(_, _, _, _, _)
\* the for loop of mapMessagesToGeminiContents from message i on
MapMessagesFrom(messages, i, contents, systemMessages, n) ==
    IF i > Len(messages)
    THEN Mapped([contents |-> contents,
                 system_instruction |-> SystemInstruction(systemMessages)], n)
    ELSE LET message == messages[i] IN
         IF message.role = "system"
         THEN LET messageText == MessageText(message.content)
              IN  MapMessagesFrom(messages, i + 1, contents,
                                  IF Trim(messageText) # <<>>
                                  THEN Append(systemMessages, Trim(messageText))
                                  ELSE systemMessages, n)
         ELSE LET m == MapContentToGeminiParts(message.content)
              IN  IF m.threw THEN Threw(m.error, n + m.requests)
                  ELSE MapMessagesFrom(messages, i + 1,
                           IF KeepTurn(m.value)
                           THEN Append(contents,
                                       [role |-> GeminiRole(message.role),
                                        parts |-> m.value])
                           ELSE contents,
                           systemMessages, n + m.requests)

\* mapMessagesToGeminiContents
MapMessagesToGeminiContents(messages, systemInstruction) ==
    MapMessagesFrom(messages, 1, <<>>,
                    IF systemInstruction # Undefined
                       /\ systemInstruction.text # <<>>
                    THEN <<systemInstruction.text>> ELSE <<>>, 0)

\* lists of messages of every role
MessageLists ==
    UNION {[1..n ->
               {Message(r, c) :
                    r \in Roles,
                    c \in {Str(<<" ", "b", " ">>), Str(<<" ">>),
                           Arr(<<UnknownPart>>),
                           Arr(<<TextPart(<<" ", "b", " ">>),
                                 TextPart(<<"a">>)>>),
                           Arr(<<UrlPart("image_url", LoopbackUrl), FilePart>>),
                           Arr(<<InlinePart(BigData)>>)}}] :
              n \in 0..MaxMessages}

\* mapMessagesToGeminiContents is called
MapMessagesCall ==
    /\ fn = "none"
    /\ \E messages \in MessageLists,
          systemInstruction \in {Undefined, Str(<<"s">>)} :
           /\ fn' = "mapMessagesToGeminiContents"
           /\ input' = <<messages, systemInstruction>>
           /\ output' = MapMessagesToGeminiContents(messages,
                                                    systemInstruction)
    /\ UNCHANGED <<clientVars, toolVars>>

----------------------------------------------------------------------------
(* providers/gemini.ts: response utilities *)

Rating(category, probability, blocked) ==
    [category |-> category, probability |-> probability, blocked |-> blocked]

BlockedRating == Rating("HARM_CATEGORY_HARASSMENT", "HIGH", TRUE)

Candidate(finishReason, text, safetyRatings) ==
    [finishReason |-> finishReason, parts |-> <<GText(text)>>,
     safetyRatings |-> safetyRatings]

\* candidates[0] followed by one more candidate
CandidateLists ==
    {<<>>} \cup {<<Candidate(f, <<"ok">>, r)>> :
                     f \in {"STOP", "MAX_TOKENS", "RECITATION", "SAFETY",
                            "BLOCKED_REASON_UNSPECIFIED"},
                     r \in {<<>>, <<BlockedRating>>}}
           \cup {<<Candidate("STOP", <<"ok">>, <<>>),
                   Candidate("SAFETY", <<"no">>, <<>>)>>,
                 <<Candidate("SAFETY", <<"no">>, <<>>),
                   Candidate("STOP", <<"ok">>, <<>>)>>}

UsageMetadata == [promptTokenCount |-> 1, candidatesTokenCount |-> 2,
                  totalTokenCount |-> 3]

\* GeminiResponse; a missing candidates field is the empty list
Response(candidates, promptFeedback, usageMetadata) ==
    [kind |-> "response", candidates |-> candidates,
     promptFeedback |-> promptFeedback, usageMetadata |-> usageMetadata]

\* promptFeedback is read only when there is no candidate
Responses ==
    {Response(<<>>, f, u) :
         f \in {Undefined, [safetyRatings |-> <<BlockedRating>>],
                [safetyRatings |->
                     <<Rating("HARM_CATEGORY_HARASSMENT", "LOW", FALSE)>>]},
         u \in {Undefined, UsageMetadata}}
        \cup {Response(c, Undefined, u) : c \in CandidateLists \ {<<>>},
                                          u \in {Undefined, UsageMetadata}}

IsBlocked_SafetyOnly(response) ==
    /\ Len(response.candidates) > 0
    /\ response.candidates[1].finishReason = "SAFETY"

\* isBlocked
IsBlocked(response) ==
    IF Len(response.candidates) = 0 THEN TRUE
    ELSE response.candidates[1].finishReason
             \in {"SAFETY", "BLOCKED_REASON_UNSPECIFIED"}

\* ratings.filter(rating => rating.blocked)
\*        .map(rating => `${rating.category}: ${rating.probability}`).join(', ')
BlockedList(ratings) ==
    LET blocked == SelectSeq(ratings, LAMBDA r : r.blocked)
    IN  Join([i \in 1..Len(blocked) |->
                 <<blocked[i].category, ": ", blocked[i].probability>>],
             <<", ">>)

\* getBlockReason
GetBlockReason(response) ==
    IF Len(response.candidates) = 0
    THEN IF response.promptFeedback # Undefined
            /\ BlockedList(response.promptFeedback.safetyRatings) # <<>>
         THEN <<"Prompt blocked due to safety concerns: ">>
                  \o BlockedList(response.promptFeedback.safetyRatings)
         ELSE <<"No content generated">>
    ELSE IF response.candidates[1].finishReason = "SAFETY"
    THEN IF BlockedList(response.candidates[1].safetyRatings) # <<>>
         THEN <<"Content blocked due to safety concerns: ">>
                  \o BlockedList(response.candidates[1].safetyRatings)
         ELSE <<"Content blocked by safety filters">>
    ELSE <<"Content generation was stopped unexpectedly">>

\* parts.map(part => part[field]).filter(Boolean): a part without the field
\* gives undefined, and undefined and the empty string are dropped
Truthy(parts, field) ==
    LET kept == SelectSeq(parts, LAMBDA part : /\ field \in DOMAIN part
                                              /\ part[field] # <<>>)
    IN  [i \in 1..Len(kept) |-> kept[i][field]]

RECURSIVE AllParts(_)
AllParts(candidates) ==
    IF candidates = <<>> THEN <<>>
    ELSE candidates[1].parts \o AllParts(Tail(candidates))

ExtractText_AllCandidates(response) ==
    Join(Truthy(AllParts(response.candidates), "text"), <<"\n\n">>)

\* extractText
ExtractText(response) ==
    IF Len(response.candidates) = 0 THEN <<>>
    ELSE Join(Truthy(response.candidates[1].parts, "text"), <<"\n\n">>)

\* extractFunctionCalls
ExtractFunctionCalls(response) ==
    IF Len(response.candidates) = 0 THEN <<>>
    ELSE Truthy(response.candidates[1].parts, "functionCall")

\* extractUsage
ExtractUsage(response) ==
    IF response.usageMetadata = Undefined THEN Undefined
    ELSE [prompt_tokens |-> response.usageMetadata.promptTokenCount,
          completion_tokens |-> response.usageMetadata.candidatesTokenCount,
          total_tokens |-> response.usageMetadata.totalTokenCount]

\* a part of a candidate that carries a function call
GCall(name) == [functionCall |-> <<name>>]

\* candidates[0]: its parts are those of candidates[0].content, [] when the
\* content is missing
FirstCandidates ==
    {[finishReason |-> f, parts |-> p, safetyRatings |-> r] :
         f \in {"STOP", "SAFETY"},
         p \in {<<>>, <<GText(<<"x">>)>>, <<GText(<<"x">>), GText(<<"y">>)>>,
                <<GText(<<"y">>), GCall("f"), GText(<<"x">>), GCall("g")>>,
                <<GCall("g"), GText(<<>>), GCall("f")>>},
         r \in {<<>>, <<BlockedRating>>}}

\* responses with no, one and two candidates
UtilityResponses ==
    {Response(c, f, Undefined) :
         c \in {<<>>} \cup {<<a>> : a \in FirstCandidates}
                      \cup {<<a, b>> :
                                a \in FirstCandidates,
                                b \in {[finishReason |-> "SAFETY",
                                        parts |-> <<GText(<<"z">>), GCall("h")>>,
                                        safetyRatings |-> <<BlockedRating>>],
                                       [finishReason |-> "STOP",
                                        parts |-> <<GCall("h"), GText(<<"z">>)>>,
                                        safetyRatings |-> <<>>]}},
         f \in {Undefined, [safetyRatings |-> <<BlockedRating>>]}}

\* what the four utilities return for a response
Utilities(response) ==
    [isBlocked |-> IsBlocked(response),
     getBlockReason |-> GetBlockReason(response),
     extractText |-> ExtractText(response),
     extractFunctionCalls |-> ExtractFunctionCalls(response)]

\* the utilities are called on two responses
UtilitiesCall ==
    /\ fn = "none"
    /\ \E r1 \in UtilityResponses, r2 \in UtilityResponses :
           /\ fn' = "utilities"
           /\ input' = <<r1, r2>>
           /\ output' = <<Utilities(r1), Utilities(r2)>>
    /\ UNCHANGED <<clientVars, toolVars>>

NextMap ==
    \/ ValidateCall
    \/ FetchCall
    \/ MapContentCall
    \/ MapMessagesCall
    \/ UtilitiesCall

SpecMap == Init /\ [][NextMap]_vars

----------------------------------------------------------------------------
(* index.ts: the handler of CallToolRequestSchema *)

\* longest list of messages in a tool call
MaxToolMessages == 2

ToolNames ==
    {"gemini_generate", "gemini_messages", "gemini_upload_file",
     "gemini_list_files", "gemini_delete_file", "gemini_embeddings",
     "gemini_getdocs"}

\* longest list of texts to embed
MaxTexts == 2

\* longest page of files
MaxFiles == 2

\* the filter argument of gemini_list_files
MimeFilter == [kind |-> "object", mimeTypes |-> <<"image/png">>]

\* request.params.arguments: an object, EmptyObject being {}
Keys(args) == DOMAIN args \ {"kind"}

MessagesArguments(messages) ==
    [kind |-> "object", messages |-> messages, system |-> Undefined]

UploadArguments(source) ==
    [kind |-> "object", source |-> source, mimeType |-> "image/png"]

\* the messages of a gemini_messages call
ToolMessages ==
    {Message(r, c) :
         r \in {"user", "assistant", "system"},
         c \in {Str(<<" ", "b", " ">>), Arr(<<UnknownPart>>),
                Arr(<<InlinePart(BigData)>>),
                Arr(<<UrlPart("image_url", LoopbackUrl), FilePart>>),
                Arr(<<UrlPart("image_url", MissingUrl), FilePart>>),
                Arr(<<UrlPart("image_url", HugeUrl), FilePart>>),
                Arr(<<UrlPart("audio_url", DownUrl), FilePart>>),
                Arr(<<UrlPart("video_url", SlowUrl), FilePart>>)}}

Arguments(name) ==
    CASE name = "gemini_generate" ->
            {[kind |-> "object", prompt |-> <<"hi">>], EmptyObject}
      [] name = "gemini_messages" ->
            {MessagesArguments(l) :
                 l \in UNION {[1..n -> ToolMessages] :
                                 n \in 0..MaxToolMessages}}
                \cup {EmptyObject}
      [] name = "gemini_upload_file" ->
            {UploadArguments([url |-> ImageUrl]),
             UploadArguments([url |-> LoopbackUrl]),
             UploadArguments([url |-> FtpUrl]),
             UploadArguments([base64 |-> SmallData]), EmptyObject}
      [] name = "gemini_list_files" ->
            {EmptyObject, [kind |-> "object", pageSize |-> 10],
             [kind |-> "object", pageSize |-> 0],
             [kind |-> "object", filter |-> MimeFilter],
             [kind |-> "object", pageSize |-> 10, filter |-> MimeFilter]}
      [] name = "gemini_delete_file" ->
            {[kind |-> "object", fileId |-> <<"f">>],
             [kind |-> "object", fileId |-> <<>>]}
      [] name = "gemini_embeddings" ->
            {[kind |-> "object", texts |-> l] :
                 l \in UNION {[1..n -> {<<"a">>, <<"b">>}] : n \in 0..MaxTexts}}
      [] name = "gemini_getdocs" ->
            {EmptyObject, [kind |-> "object", verbose |-> TRUE]}
      [] OTHER -> {EmptyObject}

\* the literal types of ContentPartSchema
ContentPartSchema(part) ==
    part.type \in {"text", "image_url", "audio_url", "video_url",
                   "inline_data", "file_uri"}

MessageSchema(message) ==
    /\ message.role \in Roles
    /\ \/ message.content.kind = "string"
       \/ \A i \in 1..Len(message.content.parts) :
              ContentPartSchema(message.content.parts[i])

SourceSchema(source) ==
    \/ /\ "url" \in DOMAIN source
       /\ source.url.form = "url"
       /\ source.url.protocol \in {"http:", "https:"}
    \/ /\ "base64" \in DOMAIN source
       /\ source.base64.len >= 4

SchemaAccepts_AnyPart(name, args) ==
    CASE name = "gemini_generate" -> "prompt" \in Keys(args)
      [] name = "gemini_messages" -> "messages" \in Keys(args)
      [] name = "gemini_upload_file" ->
            "source" \in Keys(args) /\ SourceSchema(args.source)
      [] name = "gemini_list_files" ->
            "pageSize" \in Keys(args) => args.pageSize \in 1..1000
      [] name = "gemini_delete_file" ->
            "fileId" \in Keys(args) /\ Len(args.fileId) \in 1..512
      [] name = "gemini_embeddings" ->
            /\ "texts" \in Keys(args)
            /\ Len(args.texts) \in 1..2048
            /\ \A i \in 1..Len(args.texts) : Len(args.texts[i]) >= 1
      [] name = "gemini_getdocs" -> Keys(args) = {}

\* <Tool>Schema.parse(request.params.arguments) does not throw
SchemaAccepts(name, args) ==
    CASE name = "gemini_generate" -> "prompt" \in Keys(args)
      [] name = "gemini_messages" ->
            /\ "messages" \in Keys(args)
            /\ \A i \in 1..Len(args.messages) : MessageSchema(args.messages[i])
      [] name = "gemini_upload_file" ->
            "source" \in Keys(args) /\ SourceSchema(args.source)
      [] name = "gemini_list_files" ->
            "pageSize" \in Keys(args) => args.pageSize \in 1..1000
      [] name = "gemini_delete_file" ->
            "fileId" \in Keys(args) /\ Len(args.fileId) \in 1..512
      [] name = "gemini_embeddings" ->
            /\ "texts" \in Keys(args)
            /\ Len(args.texts) \in 1..2048
            /\ \A i \in 1..Len(args.texts) : Len(args.texts[i]) >= 1
      [] name = "gemini_getdocs" -> Keys(args) = {}

ZodError == Err("ZodError", 0, <<"[ { \"code\": ... } ]">>)

McpError(name) ==
    Err("McpError", 0, <<"MCP error -32601: Unknown tool: ", name>>)

\* error instanceof Error ? error.message : String(error)
ErrorText(error) == IF error = Undefined THEN <<"undefined">> ELSE error.message

\* the result of a tool call: one text content and the isError flag
Result(text, isError) ==
    [kind |-> "result", type |-> "text", text |-> text, isError |-> isError]

OuterCatch_Rethrow(error) == [kind |-> "exception", error |-> error]

\* the catch of the handler's outer try
OuterCatch(error) == Result(<<"Gemini API error: ">> \o ErrorText(error), TRUE)

\* the catch of a tool's own try, for the tools that have a returning one
FailedText(name) ==
    CASE name = "gemini_upload_file" -> <<"Upload failed: ">>
      [] name = "gemini_list_files" -> <<"List files failed: ">>
      [] name = "gemini_delete_file" -> <<"Delete file failed: ">>
      [] name = "gemini_embeddings" -> <<"Generate embeddings failed: ">>
      [] name = "gemini_getdocs" -> <<"Failed to read documentation: ">>

InnerCatch(name, error) == Result(FailedText(name) \o ErrorText(error), TRUE)

\* observability.recordEvent
Event(name, usage, error) ==
    [tool_name |-> name, usage |-> usage, error |-> error]

Generation == {"gemini_generate", "gemini_messages"}

\* generateEmbeddings: the body of the batchEmbedContents request
EmbeddingsRequest(model, texts) ==
    [requests |->
         [i \in 1..Len(texts) |->
              [model |-> "models/" \o model,
               content |-> [parts |-> <<[text |-> texts[i]]>>]]]]

\* client.listFiles({ pageSize: args.pageSize, pageToken: args.pageToken }),
\* pageSize having the default 100 and no call of the model a pageToken
ListFilesParams(args) ==
    [kind |-> "object",
     pageSize |-> IF "pageSize" \in Keys(args) THEN args.pageSize ELSE 100]

EmbeddingsResponses ==
    {[kind |-> "object", embeddings |-> l] :
         l \in UNION {[1..n -> {[kind |-> "object", values |-> <<1>>],
                                [kind |-> "object", values |-> <<2>>],
                                EmptyObject}] : n \in 0..(MaxTexts + 1)}}
        \cup {EmptyObject}

ListFilesResponses ==
    {[kind |-> "object", files |-> l] :
         l \in UNION {[1..n -> {[kind |-> "object", name |-> <<"files/", "p">>,
                                 mime_type |-> "image/png"],
                                [kind |-> "object", name |-> <<"files/", "v">>,
                                 mime_type |-> "video/mp4"],
                                EmptyObject}] : n \in 0..MaxFiles}}
        \cup {EmptyObject}

ToolEmbeddings_Shifted(res) ==
    LET list == IF "embeddings" \in Keys(res) THEN res.embeddings
                ELSE <<>>
    IN  [i \in 1..Len(list) |->
             [index |-> i,
              values |-> IF "values" \in Keys(list[i]) THEN list[i].values
                         ELSE <<>>]]

\* (result.embeddings || []).map((embedding, index) =>
\*     ({ index, values: embedding.values || [] }))
ToolEmbeddings(res) ==
    LET list == IF "embeddings" \in Keys(res) THEN res.embeddings
                ELSE <<>>
    IN  [i \in 1..Len(list) |->
             [index |-> i - 1,
              values |-> IF "values" \in Keys(list[i]) THEN list[i].values
                         ELSE <<>>]]

\* JSON.stringify({ embeddings }, null, 2)
EmbeddingsText(embeddings) ==
    <<"{ \"embeddings\": [">>
        \o Join([i \in 1..Len(embeddings) |->
                     <<"{ \"index\": ">> \o Decimal(embeddings[i].index)
                         \o <<", \"values\": [">>
                         \o Join([j \in 1..Len(embeddings[i].values) |->
                                      Decimal(embeddings[i].values[j])],
                                 <<", ">>)
                         \o <<"] }">>],
                <<", ">>)
        \o <<"] }">>

\* (result.files || []).map(file => ({ fileId, ..., mimeType, ... })): the
\* other fields are copied like mimeType
ToolFiles(res) ==
    LET list == IF "files" \in Keys(res) THEN res.files ELSE <<>>
    IN  [i \in 1..Len(list) |->
             [fileId |-> IF "name" \in Keys(list[i])
                         THEN (IF list[i].name[1] = "files/"
                               THEN Tail(list[i].name) ELSE list[i].name)
                         ELSE <<"unknown">>,
              mimeType |-> IF "mime_type" \in Keys(list[i])
                           THEN list[i].mime_type ELSE ""]]

\* JSON.stringify({ files, nextPageToken: result.next_page_token || null })
FilesText(files) ==
    <<"{ \"files\": [">>
        \o Join([i \in 1..Len(files) |->
                     <<"{ \"fileId\": \"">> \o files[i].fileId
                         \o <<"\", \"mimeType\": \"", files[i].mimeType,
                              "\" }">>],
                <<", ">>)
        \o <<"], \"nextPageToken\": null }">>

\* the text of the result of a tool other than a generation
SuccessText(name, value) ==
    CASE name = "gemini_embeddings" -> EmbeddingsText(ToolEmbeddings(value))
      [] name = "gemini_list_files" -> FilesText(ToolFiles(value))
      [] OTHER -> <<"{ ... }">>

\* the handler returns env
Finish(env) ==
    /\ hpc' = "done"
    /\ envelope' = env

\* the handler awaits client[method](body)
Await(method, body) ==
    /\ hpc' = "awaiting"
    /\ upstream' = Append(upstream, [method |-> method, body |-> body])
    /\ UNCHANGED envelope

\* the handler up to its first await on the client, or to its return
ToolCall ==
    /\ hpc = "idle"
    /\ \E name \in ToolNames \cup {"gemini_unknown"}, apiKey \in BOOLEAN :
       \E args \in Arguments(name) :
          /\ request' = [name |-> name, arguments |-> args, apiKey |-> apiKey]
          /\ IF ~apiKey
             THEN Finish(OuterCatch(
                      Err("Error", 0,
                          <<"GEMINI_API_KEY environment variable is required">>)))
                  /\ UNCHANGED <<events, upstream, fetched>>
             ELSE IF name \notin ToolNames
             THEN Finish(OuterCatch(McpError(name)))
                  /\ UNCHANGED <<events, upstream, fetched>>
             ELSE IF ~SchemaAccepts(name, args)
             THEN Finish(OuterCatch(ZodError))
                  /\ UNCHANGED <<events, upstream, fetched>>
             ELSE CASE name = "gemini_generate" ->
                         /\ Await("generateContent",
                                  [contents |->
                                       <<[role |-> "user",
                                          parts |-> <<GText(args.prompt)>>]>>,
                                   system_instruction |-> Undefined])
                         /\ UNCHANGED <<events, fetched>>
                    [] name = "gemini_messages" ->
                         LET m == MapMessagesToGeminiContents(args.messages,
                                                              args.system)
                         IN  /\ fetched' = m.requests
                             /\ IF m.threw
                                THEN /\ events' =
                                            Append(events,
                                                   Event(name, FALSE,
                                                         ErrorText(m.error)))
                                     /\ Finish(OuterCatch(m.error))
                                     /\ UNCHANGED upstream
                                ELSE /\ Await("generateContent", m.value)
                                     /\ UNCHANGED events
                    [] name = "gemini_upload_file" ->
                         IF "url" \in DOMAIN args.source
                         THEN LET r == FetchAsInlineData(
                                           args.source.url, args.mimeType,
                                           Served(args.source.url))
                              IN  /\ fetched' = r.requests
                                  /\ UNCHANGED events
                                  /\ IF r.ok
                                     THEN Await("uploadFile", r.data)
                                     ELSE Finish(InnerCatch(name, r.error))
                                          /\ UNCHANGED upstream
                         ELSE /\ Await("uploadFile", args.source.base64)
                              /\ UNCHANGED <<events, fetched>>
                    [] name = "gemini_list_files" ->
                         Await("listFiles", ListFilesParams(args))
                         /\ UNCHANGED <<events, fetched>>
                    [] name = "gemini_delete_file" ->
                         Await("deleteFile", args.fileId)
                         /\ UNCHANGED <<events, fetched>>
                    [] name = "gemini_embeddings" ->
                         Await("generateEmbeddings",
                               EmbeddingsRequest("text-embedding-004",
                                                 args.texts))
                         /\ UNCHANGED <<events, fetched>>
                    [] name = "gemini_getdocs" ->
                         /\ hpc' = "awaiting"
                         /\ UNCHANGED <<envelope, events, upstream, fetched>>
    /\ UNCHANGED <<settled, calls, clientVars, mapVars>>

\* the text of the result of a generation that was not blocked
ResponseText(response) ==
    ExtractText(response)
        \o (IF ExtractUsage(response) # Undefined
            THEN <<"\n\n**Usage:** ">> ELSE <<>>)

\* what the awaited call of a tool can resolve to
Resolutions(name) ==
    CASE name \in Generation -> Responses
      [] name = "gemini_embeddings" -> EmbeddingsResponses
      [] name = "gemini_list_files" -> ListFilesResponses
      [] OTHER -> {EmptyObject}

\* the awaited call resolves: the handler runs to its return
AwaitResolves ==
    /\ hpc = "awaiting"
    /\ \E value \in Resolutions(request.name) :
          /\ settled' = [kind |-> "resolved", value |-> value]
          /\ IF request.name \in Generation
             THEN IF IsBlocked(value)
                  THEN /\ events' =
                              Append(events,
                                     Event(request.name, FALSE,
                                           <<"Content blocked: ">>
                                               \o GetBlockReason(value)))
                       /\ Finish(Result(<<"Content generation was blocked: ">>
                                            \o GetBlockReason(value), TRUE))
                  ELSE /\ events' =
                              (IF ExtractUsage(value) # Undefined
                               THEN Append(events,
                                           Event(request.name, TRUE, <<>>))
                               ELSE events)
                       /\ Finish(Result(ResponseText(value), FALSE))
             ELSE /\ events' =
                         (IF request.name = "gemini_embeddings"
                          THEN Append(events, Event(request.name, TRUE, <<>>))
                          ELSE events)
                  /\ Finish(Result(SuccessText(request.name, value), FALSE))
    /\ UNCHANGED <<request, upstream, fetched, calls, clientVars, mapVars>>

\* the awaited call rejects: the catch blocks run
AwaitRejects ==
    /\ hpc = "awaiting"
    /\ \E error \in {Err("Error", 400, <<"4", "0", "0", " Bad Request - ">>),
                     Err("FetchError", 0, <<"request failed">>),
                     Err("AbortError", 0, <<"The operation was aborted.">>),
                     Undefined} :
          /\ settled' = [kind |-> "rejected", error |-> error]
          /\ events' =
                 (IF request.name \in Generation \cup {"gemini_embeddings"}
                  THEN Append(events,
                              Event(request.name, FALSE, ErrorText(error)))
                  ELSE events)
          /\ IF request.name \in Generation
             THEN Finish(OuterCatch(error))
             ELSE Finish(InnerCatch(request.name, error))
    /\ UNCHANGED <<request, upstream, fetched, calls, clientVars, mapVars>>

NextTool ==
    \/ ToolCall
    \/ AwaitResolves
    \/ AwaitRejects

SpecTool == Init /\ [][NextTool]_vars

----------------------------------------------------------------------------
(* index.ts and providers/gemini.ts: tool invocations in flight together *)

Frame_Shared(i) == 1

\* the activation of retryWithBackoff that holds `attempt` and `lastError`
\* of invocation i: `new GeminiClient()` and the call are made per request
Frame(i) == i

\* the handler of invocation i creates its client and calls generateContent:
\* retryWithBackoff starts with attempt = 0 and lastError unassigned
Invoke(i) ==
    /\ calls[i].pc = "idle"
    /\ calls' = [calls EXCEPT ![i].pc = "request",
                              ![Frame(i)].attempt = 0,
                              ![Frame(i)].lastError = Undefined]
    /\ UNCHANGED <<hpc, request, settled, envelope, events, upstream, fetched,
                   clientVars, mapVars>>

\* one iteration of the for loop of invocation i, up to its await
InvocationAttempt(i, o) ==
    /\ calls[i].pc = "request"
    /\ LET a == calls[Frame(i)].attempt
           error == OperationError(o)
           counted == [calls EXCEPT ![i].requests = @ + 1,
                                    ![i].seen = Append(@, o)]
       IN  calls' =
               IF OperationSucceeds(o)
               THEN [counted EXCEPT ![i].pc = "returned",
                                    ![i].result = JsonValue(o.text)]
               ELSE IF \/ DontRetry(error.message)
                       \/ LastAttempt(a)
                       \/ ~ShouldRetry(error.message)
               THEN [counted EXCEPT ![Frame(i)].lastError = error,
                                    ![i].pc = "thrown",
                                    ![i].result = error]
               ELSE [counted EXCEPT ![Frame(i)].lastError = error,
                                    ![i].pc = "sleep",
                                    ![i].delay = RetryDelay(a)]
    /\ UNCHANGED <<hpc, request, settled, envelope, events, upstream, fetched,
                   clientVars, mapVars>>

\* the timer of invocation i fires: attempt++ and the loop condition
InvocationWake(i) ==
    /\ calls[i].pc = "sleep"
    /\ LET a == calls[Frame(i)].attempt
           woken == [calls EXCEPT ![i].waits = Append(@, calls[i].delay),
                                  ![i].delay = 0,
                                  ![Frame(i)].attempt = a + 1]
       IN  calls' =
               IF a + 1 <= maxRetriesDefault
               THEN [woken EXCEPT ![i].pc = "request"]
               ELSE [woken EXCEPT ![i].pc = "thrown",
                                  ![i].result = calls[Frame(i)].lastError]
    /\ UNCHANGED <<hpc, request, settled, envelope, events, upstream, fetched,
                   clientVars, mapVars>>

NextCalls ==
    \/ \E i \in Invocations : Invoke(i)
    \/ \E i \in Invocations,
          o \in [kind : {"http"}, status : {200, 400, 429, 503},
                 text : {<<"4">>}] : InvocationAttempt(i, o)
    \/ \E i \in Invocations : InvocationWake(i)

SpecCalls == Init /\ [][NextCalls]_vars

----------------------------------------------------------------------------
(* Properties *)

RECURSIVE SumSeq(_)
SumSeq(s) == IF s = <<>> THEN 0 ELSE Head(s) + SumSeq(Tail(s))

Generating == op = "generateContent"

Fetching == op \in FetchOps

\* the current attempt of generateContent has failed
GenFailed == Generating /\ last.kind # "none" /\ ~OperationSucceeds(last)

GenMessage == OperationError(last).message

Has400(m) == Includes(m, <<"4", "0", "0">>)

Has429(m) == Includes(m, <<"4", "2", "9">>)

Has5(m) == Includes(m, <<"5">>)

\* the schedule 1s, 2s, 4s of generateContent
GenSchedule == <<1000, 2000, 4000>>

\* the schedule 500, 1000, 2000, 4000 ms of fetchWithRetry
FetchSchedule == <<500, 1000, 2000, 4000>>

\* C1 as stated: every failed attempt of generateContent whose message does
\* not contain "400", with fewer than 3 retries used, is followed by a backoff
\* wait of 1s, 2s, 4s and another attempt.
C1_RetryUnless400 ==
    (GenFailed /\ ~Has400(GenMessage) /\ attempt < 3)
        => (pc = "sleep" /\ delay = GenSchedule[attempt + 1])

\* C1 amended: every failed attempt of generateContent whose message contains
\* "429" or "5" and does not contain "400", with fewer than 3 retries used, is
\* followed by a backoff wait of 1s, 2s, 4s (by retries used) and another
\* attempt; the error is not surfaced.
C1_RetryOnTransientMessage ==
    (GenFailed /\ ~Has400(GenMessage) /\ attempt < 3
       /\ (Has429(GenMessage) \/ Has5(GenMessage)))
        => (pc = "sleep" /\ delay = GenSchedule[attempt + 1]
              /\ result = Undefined /\ requests = attempt + 1)

C1_Witness ==
    /\ Generating /\ pc = "sleep" /\ attempt = 2
    /\ last.kind = "network" /\ Has5(GenMessage)

C3_SuccessAfterRetries ==
    (Generating /\ last.kind # "none" /\ OperationSucceeds(last))
        => (/\ pc = "returned"
            /\ result = JsonValue(last.text)
            /\ attempt <= 3
            /\ requests = attempt + 1
            /\ waits = SubSeq(GenSchedule, 1, attempt)
            /\ SumSeq(waits) = 1000 * ((2 ^ attempt) - 1))

C3_Witness ==
    /\ Generating /\ pc = "returned" /\ requests = 4
    /\ SumSeq(waits) = 7000

\* C4: when generateContent throws after 4 requests, the value thrown is the
\* error of the 4th attempt, and the waits of the call are the three waits
\* before it: none follows the last attempt.
C4_ExhaustionThrowsLastError ==
    (Generating /\ pc = "thrown" /\ requests = 4)
        => (/\ last.kind # "none"
            /\ result = OperationError(last)
            /\ result = lastError
            /\ waits = GenSchedule
            /\ delay = 0)

C4_Witness ==
    /\ Generating /\ pc = "thrown" /\ requests = 4
    /\ Has5(result.message) /\ ~Has400(result.message)

\* C5: in uploadFile, listFiles, deleteFile and generateEmbeddings a non-2xx
\* response whose status is neither 429 nor 5xx ends the call: the error is
\* thrown at once, with no backoff wait, and on the first attempt exactly one
\* request has been made.
C5_TerminalStatusThrows ==
    (Fetching /\ last.kind = "http" /\ ~Ok(last.status)
       /\ last.status # 429 /\ ~(last.status >= 500 /\ last.status < 600))
        => (/\ pc = "thrown"
            /\ delay = 0
            /\ (attempt = 0 => (requests = 1 /\ waits = <<>>)))

\* C6: a call of uploadFile, listFiles, deleteFile or generateEmbeddings
\* issues at most 4 requests, and its k-th backoff wait (k = 0, 1, 2, ...)
\* lasts 500*2^k ms.
C6_FetchBounded ==
    Fetching
        => (/\ requests <= 4
            /\ Len(waits) <= 4
            /\ waits = SubSeq(FetchSchedule, 1, Len(waits))
            /\ (pc = "sleep" => delay = FetchSchedule[Len(waits) + 1]))

C6_Witness ==
    /\ Fetching /\ requests = 4 /\ Len(waits) = 4
    /\ lastError.kind = "FetchError"

\* C7: in generateContent every response with status 429 or 5xx is followed
\* by a backoff wait and another attempt while attempts remain, and is thrown
\* only by the 4th attempt, whatever the body.
C7_TransientStatusRetried ==
    (Generating /\ last.kind = "http"
       /\ (last.status = 429 \/ (last.status >= 500 /\ last.status < 600)))
        => (/\ attempt < 3 => pc = "sleep"
            /\ pc = "thrown" => requests = 4)

C9_PermanentStatusThrows ==
    (Generating /\ last.kind = "http" /\ ~Ok(last.status)
       /\ last.status # 429 /\ ~(last.status >= 500 /\ last.status < 600))
        => (/\ pc = "thrown"
            /\ result = OperationError(last)
            /\ (attempt = 0 => requests = 1))

\* C10 as stated: an attempt of generateContent aborted by its timeout, with
\* fewer than 3 retries used, is followed by the backoff wait and another
\* attempt.
C10_AbortRetried ==
    (Generating /\ last.kind = "abort" /\ attempt < 3)
        => (pc = "sleep" /\ delay = GenSchedule[attempt + 1])

\* C10 amended: an attempt of generateContent aborted by its timeout is not
\* retried: the abort error, whose message contains none of "400", "429" and
\* "5", is thrown to the caller at once, with no backoff wait after it.
C10_AbortSurfaced ==
    (Generating /\ last.kind = "abort")
        => (/\ pc = "thrown"
            /\ result = Err("AbortError", 0, last.text)
            /\ delay = 0
            /\ Len(waits) = requests - 1)

C10_Witness ==
    /\ Generating /\ last.kind = "abort" /\ pc = "thrown"
    /\ requests = 2 /\ waits = <<1000>>

----------------------------------------------------------------------------
(* Properties of the media fetcher and the request mappers *)

IsTimeout(error) ==
    error.kind = "Error" /\ error.message[1] = "Timeout fetching media from "

Recognised(part) ==
    part.type \in {"text", "inline_data", "file_uri"} \cup MediaTypes

Oversize(part) ==
    part.type = "inline_data" /\ part.data.len * 3 > 20 * 1024 * 1024 * 4

\* the media URLs whose fetch fails, or yields data over the limit
FailingUrls ==
    {MissingUrl, HugeUrl, NearLimitUrl, LoopbackUrl, DownUrl, SlowUrl}

\* the mapped part g stands for the content part p
MapsTo(p, g) ==
    CASE p.type = "text" -> g = [text |-> p.text]
      [] p.type = "inline_data" ->
            g = [inlineData |-> [data |-> p.data, mimeType |-> p.mimeType]]
      [] p.type = "file_uri" ->
            g = [fileData |-> [fileUri |-> p.uri, mimeType |-> p.mimeType]]
      [] p.type \in MediaTypes ->
            IF p.url \in FailingUrls
            THEN DOMAIN g = {"text"} /\ Includes(g.text, <<p.url.href>>)
            ELSE DOMAIN g = {"inlineData"}
      [] OTHER -> FALSE

\* C15: for a content list without an oversize inline_data part,
\* mapContentToGeminiParts returns one part per recognised input part, in the
\* input order, a failed remote media part becoming one text part; only the
\* parts with an unrecognised tag are dropped.
C15_OnePartPerRecognised ==
    (/\ fn = "mapContentToGeminiParts"
     /\ input[1].kind = "array"
     /\ \A i \in 1..Len(input[1].parts) : ~Oversize(input[1].parts[i]))
    => LET kept == SelectSeq(input[1].parts, Recognised)
           dropped == Len(input[1].parts) - Len(kept)
       IN  /\ ~output.threw
           /\ Len(output.value) = Len(input[1].parts) - dropped
           /\ \A i \in 1..Len(kept) : MapsTo(kept[i], output.value[i])

C15_Witness ==
    /\ fn = "mapContentToGeminiParts"
    /\ input[1] = Arr(<<UrlPart("video_url", SlowUrl), UnknownPart,
                        TextPart(<<"a">>)>>)
    /\ ~output.threw
    /\ Len(output.value) = 2
    /\ DOMAIN output.value[1] = {"text"}
    /\ output.value[2] = [text |-> <<"a">>]

MappingReturned == fn = "mapMessagesToGeminiContents" /\ ~output.threw

\* the strictly increasing maps from the k turns to the n messages
Embeddings(k, n) ==
    {f \in [1..k -> 1..n] : \A a, b \in 1..k : a < b => f[a] < f[b]}

\* C18: mapMessagesToGeminiContents emits no turn for a system message, every
\* turn has role user or model (assistant becomes model, user and model are
\* kept), and the turns are, in order, the mapped non-system messages: each
\* turn carries the parts of one message, later turns come from later
\* messages.
C18_TurnsFollowMessages ==
    MappingReturned =>
        LET messages == input[1]
            contents == output.value.contents
        IN  /\ \A k \in 1..Len(contents) : contents[k].role \in {"user", "model"}
            /\ \E f \in Embeddings(Len(contents), Len(messages)) :
                  \A k \in 1..Len(contents) :
                      LET message == messages[f[k]] IN
                      /\ message.role # "system"
                      /\ contents[k].role =
                             (IF message.role \in {"assistant", "model"}
                              THEN "model" ELSE "user")
                      /\ contents[k].parts =
                             MapContentToGeminiParts(message.content).value

C18_Witness ==
    /\ MappingReturned
    /\ input[1] = <<Message("system", Str(<<" ", "b", " ">>)),
                    Message("assistant", Str(<<" ", "b", " ">>)),
                    Message("user", Arr(<<UrlPart("image_url", LoopbackUrl),
                                          FilePart>>))>>
    /\ Len(output.value.contents) = 2
    /\ output.value.contents[1].role = "model"
    /\ output.value.contents[2].role = "user"

SystemOnly ==
    /\ fn = "mapMessagesToGeminiContents"
    /\ input[2] = Undefined
    /\ \A i \in 1..Len(input[1]) : input[1][i].role = "system"

\* the text of a message: its string content, or its first text part
TextOf(message) ==
    IF message.content.kind = "string" THEN message.content.text
    ELSE LET parts == message.content.parts
             Texts_ == {i \in 1..Len(parts) : parts[i].type = "text"}
         IN  IF Texts_ = {} THEN <<>>
             ELSE parts[CHOOSE i \in Texts_ : \A j \in Texts_ : i <= j].text

BlankLine == <<"\n\n">>

\* C19 as stated: for a list of system messages only (no top-level
\* instruction) there are no turns and the instruction is the non-empty
\* messages' texts joined by a blank line, in order.
C19_SystemOnlyJoined ==
    SystemOnly =>
        LET texts == [i \in 1..Len(input[1]) |-> TextOf(input[1][i])]
            nonEmpty == SelectSeq(texts, LAMBDA t : t # <<>>)
        IN  /\ ~output.threw
            /\ output.value.contents = <<>>
            /\ nonEmpty # <<>> =>
                   output.value.system_instruction =
                       [text |-> Join(nonEmpty, BlankLine)]

\* C19 amended: for a list of system messages only (no top-level instruction)
\* there are no turns; the instruction is the trimmed texts of the messages
\* whose trimmed text is non-empty, joined by a blank line, in order, and
\* there is no instruction when no such text exists.
C19_SystemOnlyJoinedTrimmed ==
    SystemOnly =>
        LET texts == [i \in 1..Len(input[1]) |-> Trim(TextOf(input[1][i]))]
            nonEmpty == SelectSeq(texts, LAMBDA t : t # <<>>)
        IN  /\ ~output.threw
            /\ output.value.contents = <<>>
            /\ output.value.system_instruction =
                   (IF nonEmpty = <<>> THEN Undefined
                    ELSE [text |-> Join(nonEmpty, BlankLine)])

C19_Witness ==
    /\ SystemOnly
    /\ input[1] = <<Message("system", Str(<<" ", "b", " ">>)),
                    Message("system", Str(<<" ">>)),
                    Message("system", Arr(<<TextPart(<<" ", "b", " ">>),
                                            TextPart(<<"a">>)>>))>>
    /\ output.value.contents = <<>>
    /\ output.value.system_instruction = [text |-> <<"b", "\n\n", "b">>]

\* a string, or a list with at least one part of a recognised type
HasMappedPart(content) ==
    \/ content.kind = "string"
    \/ \E i \in 1..Len(content.parts) : Recognised(content.parts[i])

\* C20: when mapMessagesToGeminiContents returns, the number of turns is the
\* number of non-system messages with at least one mapped part: a non-system
\* message of unrecognised parts only gives no turn, one with recognised
\* content gives exactly one.
C20_OneTurnPerMappedMessage ==
    MappingReturned =>
        LET messages == input[1]
            sources == {i \in 1..Len(messages) :
                           /\ messages[i].role # "system"
                           /\ HasMappedPart(messages[i].content)}
        IN  /\ Len(output.value.contents) = Cardinality(sources)
            /\ \A k \in 1..Len(output.value.contents) :
                   output.value.contents[k].parts # <<>>

C20_Witness ==
    /\ MappingReturned
    /\ input[1] = <<Message("user", Arr(<<UnknownPart>>)),
                    Message("user", Str(<<" ", "b", " ">>))>>
    /\ output.value.contents =
           <<[role |-> "user", parts |-> <<[text |-> <<" ", "b", " ">>]>>]>>

----------------------------------------------------------------------------
(* Properties of the tool-call handler *)

Called == request # Undefined

\* the arguments do not satisfy the schema of the tool
Malformed(name, args) ==
    CASE name = "gemini_generate" -> "prompt" \notin DOMAIN args
      [] name = "gemini_messages" ->
            \/ "messages" \notin DOMAIN args
            \/ \E i \in 1..Len(args.messages) :
                  /\ args.messages[i].content.kind = "array"
                  /\ \E j \in 1..Len(args.messages[i].content.parts) :
                         ~Recognised(args.messages[i].content.parts[j])
      [] name = "gemini_upload_file" ->
            \/ "source" \notin DOMAIN args
            \/ /\ "url" \in DOMAIN args.source
               /\ args.source.url.protocol \notin {"http:", "https:"}
      [] name = "gemini_list_files" ->
            "pageSize" \in DOMAIN args /\ args.pageSize < 1
      [] name = "gemini_delete_file" -> args.fileId = <<>>
      [] name = "gemini_embeddings" -> args.texts = <<>>
      [] name = "gemini_getdocs" -> DOMAIN args # {"kind"}
      [] OTHER -> FALSE

\* the call failed: no key, unknown tool, malformed arguments, or the awaited
\* call rejected
CallFailed ==
    \/ ~request.apiKey
    \/ request.name \notin ToolNames
    \/ Malformed(request.name, request.arguments)
    \/ settled.kind = "rejected"

Generated ==
    /\ hpc = "done"
    /\ request.name \in {"gemini_generate", "gemini_messages"}
    /\ settled.kind = "resolved"

BlockedResponse(r) ==
    \/ Len(r.candidates) = 0
    \/ r.candidates[1].finishReason \in {"SAFETY", "BLOCKED_REASON_UNSPECIFIED"}

BlockedText == <<"Content generation was blocked: ">>

\* C13: when the response to gemini_generate or gemini_messages has no
\* candidate, or a first candidate with finishReason SAFETY or
\* BLOCKED_REASON_UNSPECIFIED, the tool returns (does not throw) the blocked
\* result with the reason, and has recorded exactly one event, which carries
\* the reason; for any other response the result is not an error and neither
\* the result nor an event says blocked.
C13_BlockedIsResult ==
    Generated =>
        /\ envelope.kind = "result"
        /\ IF BlockedResponse(settled.value)
           THEN /\ envelope.isError
                /\ Len(envelope.text) > 1
                /\ SubSeq(envelope.text, 1, 1) = BlockedText
                /\ Len(events) = 1
                /\ events[1].error =
                       <<"Content blocked: ">> \o Tail(envelope.text)
           ELSE /\ ~envelope.isError
                /\ ~Includes(envelope.text, BlockedText)
                /\ \A i \in 1..Len(events) :
                       ~Includes(events[i].error, <<"Content blocked: ">>)

C13_Witness ==
    /\ Generated
    /\ request.name = "gemini_messages"
    /\ settled.value.candidates = <<>>
    /\ envelope = Result(<<"Content generation was blocked: ",
                           "Prompt blocked due to safety concerns: ",
                           "HARM_CATEGORY_HARASSMENT", ": ", "HIGH">>, TRUE)
    /\ Len(events) = 1

MessagesCall ==
    /\ Called
    /\ request.apiKey
    /\ request.name = "gemini_messages"
    /\ ~Malformed(request.name, request.arguments)

IsMedia(part) == part.type \in {"image_url", "audio_url", "video_url"}

\* message i has an oversize inline_data part
HasOversize(message) ==
    /\ message.content.kind = "array"
    /\ \E j \in 1..Len(message.content.parts) : Oversize(message.content.parts[j])

\* message i has a media part whose fetch fails
HasFailingMedia(message) ==
    /\ message.content.kind = "array"
    /\ \E j \in 1..Len(message.content.parts) :
           /\ IsMedia(message.content.parts[j])
           /\ message.content.parts[j].url \in FailingUrls

Turns(messages) == SelectSeq(messages, LAMBDA m : m.role # "system")

\* C16: in a gemini_messages call where the fetch of a media part of a
\* conversation message fails (and no inline_data part is oversize), the
\* handler still invokes generateContent, once; in the request, each turn has
\* one part per part of its message, a failed media part being a text part
\* that names the URL, the other parts being mapped as usual.
C16_FailedMediaDegrades ==
    (/\ MessagesCall
     /\ \E i \in 1..Len(request.arguments.messages) :
            /\ request.arguments.messages[i].role # "system"
            /\ HasFailingMedia(request.arguments.messages[i])
     /\ \A i \in 1..Len(request.arguments.messages) :
            request.arguments.messages[i].role # "system"
                => ~HasOversize(request.arguments.messages[i]))
    => /\ hpc # "idle"
       /\ Len(upstream) = 1
       /\ upstream[1].method = "generateContent"
       /\ LET turns == Turns(request.arguments.messages)
              contents == upstream[1].body.contents
          IN  /\ Len(contents) = Len(turns)
              /\ \A k \in 1..Len(turns) :
                     turns[k].content.kind = "array" =>
                         /\ Len(contents[k].parts) = Len(turns[k].content.parts)
                         /\ \A j \in 1..Len(turns[k].content.parts) :
                                MapsTo(turns[k].content.parts[j],
                                       contents[k].parts[j])

C16_Witness ==
    /\ MessagesCall
    /\ hpc = "done"
    /\ request.arguments.messages =
           <<Message("user", Arr(<<UrlPart("video_url", SlowUrl), FilePart>>)),
             Message("user", Arr(<<UrlPart("image_url", LoopbackUrl),
                                   FilePart>>))>>
    /\ fetched = 1
    /\ Len(upstream) = 1
    /\ Len(upstream[1].body.contents) = 2
    /\ ~envelope.isError

\* the call failed without a generateContent request
FailedWhole ==
    /\ hpc = "done"
    /\ envelope.kind = "result" /\ envelope.isError
    /\ upstream = <<>>
    /\ settled = Undefined

\* C17 as stated: an oversize inline_data part in any message fails the whole
\* gemini_messages call: no generateContent request, an error result.
C17_OversizeAnywhereFails ==
    (/\ MessagesCall
     /\ \E i \in 1..Len(request.arguments.messages) :
            HasOversize(request.arguments.messages[i]))
    => FailedWhole

\* C17 amended: an oversize inline_data part in a message that is not a system
\* message fails the whole gemini_messages call: no generateContent request,
\* an error result that says so, one error event.
C17_OversizeInTurnFails ==
    (/\ MessagesCall
     /\ \E i \in 1..Len(request.arguments.messages) :
            /\ request.arguments.messages[i].role # "system"
            /\ HasOversize(request.arguments.messages[i]))
    => /\ FailedWhole
       /\ envelope.text = <<"Gemini API error: ", "Inline data too large">>
       /\ Len(events) = 1

C17_Witness ==
    /\ MessagesCall
    /\ request.arguments.messages =
           <<Message("user", Arr(<<UrlPart("video_url", SlowUrl), FilePart>>)),
             Message("assistant", Arr(<<InlinePart(BigData)>>))>>
    /\ FailedWhole
    /\ fetched = 1

----------------------------------------------------------------------------
(* Properties of URL validation and data URLs *)

IsValidationError(error) ==
    error.message[1] \in {"Invalid URL: ", "Unsupported protocol: ",
                          "Access to hostname '", "Access to IP range '"}

\* the URLs the claim lists as rejected
ListedAsRejected(u) ==
    \/ u.form = "invalid"
    \/ /\ u.form = "url"
       /\ \/ u.protocol \in {"ftp:", "file:", "gopher:"}
          \/ u.host \in {IPv4(127, 0, 0, 1), IPv4(169, 254, 169, 254),
                         IPv4(10, 0, 0, 1), IPv4(192, 168, 1, 1),
                         IPv4(172, 16, 0, 1)}
          \/ u.host = Name(<<"localhost">>)

\* public http / https URLs
ListedAsAllowed(u) ==
    /\ u.form = "url"
    /\ u.protocol \in {"http:", "https:"}
    /\ u.host.kind = "name"
    /\ u.host.labels[Len(u.host.labels)] = "com"

\* C21: fetchAsInlineData rejects an unparsable or empty URL, a URL with
\* scheme ftp, file or gopher, and a URL with host 127.0.0.1, localhost,
\* 169.254.169.254, 10.0.0.1, 192.168.1.1 or 172.16.0.1 with a validation
\* error and without a network request; a public http / https URL passes
\* validation: the request is issued and any failure is not a validation
\* error.
C21_ListedUrlsRejectedUnfetched ==
    fn = "fetchAsInlineData" =>
        /\ ListedAsRejected(input[1]) =>
               /\ ~output.ok
               /\ output.requests = 0
               /\ IsValidationError(output.error)
        /\ ListedAsAllowed(input[1]) =>
               /\ output.requests = 1
               /\ output.ok \/ ~IsValidationError(output.error)

C21_Witness ==
    /\ fn = "fetchAsInlineData"
    /\ input[1].href = "gopher://example.com"
    /\ ~output.ok
    /\ output.requests = 0
    /\ output.error.message[1] = "Unsupported protocol: "

\* the address is in 127/8, 10/8, 192.168/16, 172.16/12, 169.254/16, or is
\* ::1, or in fc00::/7 (fc00 - fdff) or fe80::/10 (fe80 - febf)
InReservedRange(host) ==
    \/ /\ host.kind = "ipv4"
       /\ \/ host.octets[1] \in {127, 10}
          \/ host.octets[1] = 192 /\ host.octets[2] = 168
          \/ host.octets[1] = 172 /\ host.octets[2] \in 16..31
          \/ host.octets[1] = 169 /\ host.octets[2] = 254
    \/ /\ host.kind = "ipv6"
       /\ \/ host.groups = <<0, 0, 0, 0, 0, 0, 0, 1>>
          \/ host.groups[1] \in 64512..65023
          \/ host.groups[1] \in 65152..65215

\* C22: validateUrl rejects every URL whose host is a literal address in a
\* loopback, private or link-local range, IPv4 or IPv6.
C22_ReservedAddressRejected ==
    (fn = "validateUrl" /\ InReservedRange(input[1].host))
        => output # Undefined

\* where the marker ";base64," stands in a data URL
MarkerAt(text) ==
    {i \in 1..(Len(text) - 2) : SubSeq(text, i, i + 2) = <<";", "base64", ",">>}

FirstMarker(text) == CHOOSE i \in MarkerAt(text) : \A j \in MarkerAt(text) : i <= j

\* the <mime> and the <payload> of data:<mime>;base64,<payload>
DeclaredMime(text) == SubSeq(text, 1, FirstMarker(text) - 1)

Payload(text) == SubSeq(text, FirstMarker(text) + 3, Len(text))

\* strings of base64 characters whose length is a multiple of four
Base64Text == {"AAAA", "BBBB", "iVBORw0KGgo=", "SGVsbG8gd29ybGQ="}

ValidBase64(text) == \A i \in 1..Len(text) : text[i] \in Base64Text

\* C23: for every input data:<mime>;base64,<payload>, fetchAsInlineData
\* returns the declared MIME type and the payload unchanged, whatever the
\* MIME hint, and issues no network request.
C23_DataUrlReturnedUnchanged ==
    (/\ fn = "fetchAsInlineData"
     /\ input[1].form = "data"
     /\ MarkerAt(input[1].text) # {}
     /\ DeclaredMime(input[1].text) # <<>>)
        => /\ output.ok
           /\ output.requests = 0
           /\ output.mimeType = Concat(DeclaredMime(input[1].text))
           /\ output.data.tag = Concat(Payload(input[1].text))

\* C24: fetchAsInlineData fails for every data: URI without ";base64" and
\* for every data: URI whose payload is not valid base64.
C24_BadDataUrlFails ==
    (/\ fn = "fetchAsInlineData"
     /\ input[1].form = "data"
     /\ \/ MarkerAt(input[1].text) = {}
        \/ ~ValidBase64(Payload(input[1].text)))
        => ~output.ok

----------------------------------------------------------------------------
(* Properties of the embeddings and file-listing tools *)

EmbeddingsReturned ==
    /\ hpc = "done"
    /\ request.name = "gemini_embeddings"
    /\ settled.kind = "resolved"

\* the vector of a text
Embedding(text) == IF text = <<"a">> THEN <<1>> ELSE <<2>>

\* one entry for each text, indexed from 0 in input order
EntriesFor(texts) ==
    [i \in 1..Len(texts) |-> [index |-> i - 1, values |-> Embedding(texts[i])]]

\* the upstream answers with the vector of each text, in request order
AnsweredInOrder ==
    /\ "embeddings" \in Keys(settled.value)
    /\ settled.value.embeddings =
           [i \in 1..Len(request.arguments.texts) |->
                [kind |-> "object",
                 values |-> Embedding(request.arguments.texts[i])]]

\* the batch request lists the texts in input order
RequestInInputOrder ==
    LET batch == upstream[Len(upstream)].body.requests
        texts == request.arguments.texts
    IN  /\ Len(batch) = Len(texts)
        /\ \A i \in 1..Len(texts) :
               batch[i].content.parts = <<[text |-> texts[i]]>>

\* C25 as stated: for n texts the result has exactly n vectors, the one at
\* index i being that of text i, however many vectors the upstream returns
\* and in whatever order.
C25_OneVectorPerTextRegardless ==
    EmbeddingsReturned =>
        /\ RequestInInputOrder
        /\ envelope.text = EmbeddingsText(EntriesFor(request.arguments.texts))

\* C25 amended: the batch request lists the texts in input order; the result
\* has one entry for each vector of the upstream response, indexed from 0 in
\* the order of the response; so it has the vector of text i at index i when
\* the upstream answers with one vector for each request, in request order.
C25_OneEntryPerUpstreamVector ==
    EmbeddingsReturned =>
        LET list == IF "embeddings" \in Keys(settled.value)
                    THEN settled.value.embeddings ELSE <<>>
        IN  /\ RequestInInputOrder
            /\ envelope.text =
                   EmbeddingsText(
                       [i \in 1..Len(list) |->
                            [index |-> i - 1,
                             values |-> IF "values" \in Keys(list[i])
                                        THEN list[i].values ELSE <<>>]])
            /\ AnsweredInOrder =>
                   envelope.text =
                       EmbeddingsText(EntriesFor(request.arguments.texts))

C25_Witness ==
    /\ EmbeddingsReturned
    /\ request.arguments.texts = << <<"b">>, <<"a">> >>
    /\ AnsweredInOrder
    /\ ~envelope.isError

FilesReturned ==
    /\ hpc = "done"
    /\ request.name = "gemini_list_files"
    /\ settled.kind = "resolved"

\* C27: when gemini_list_files is called with filter.mimeTypes, every file
\* of the returned page has one of these MIME types.
C27_ReturnedFilesMatchFilter ==
    (FilesReturned /\ "filter" \in Keys(request.arguments)) =>
        LET files == ToolFiles(settled.value)
            mimeTypes == request.arguments.filter.mimeTypes
        IN  /\ envelope.text = FilesText(files)
            /\ \A i \in 1..Len(files) :
                   \E j \in 1..Len(mimeTypes) : files[i].mimeType = mimeTypes[j]

----------------------------------------------------------------------------
(* Properties of the response utilities *)

\* the two responses agree on candidates[0], on promptFeedback and on
\* whether there is a candidate
Agree(r1, r2) ==
    /\ (r1.candidates = <<>>) <=> (r2.candidates = <<>>)
    /\ r1.candidates # <<>> => r1.candidates[1] = r2.candidates[1]
    /\ r1.promptFeedback = r2.promptFeedback

RECURSIVE InPartOrder(_, _)
\* the non-empty values of a field of the parts, first part first
InPartOrder(parts, field) ==
    IF parts = <<>> THEN <<>>
    ELSE (IF field \in DOMAIN parts[1] /\ parts[1][field] # <<>>
          THEN <<parts[1][field]>> ELSE <<>>)
             \o InPartOrder(Tail(parts), field)

\* C26: isBlocked, getBlockReason, extractText and extractFunctionCalls give
\* identical results for two responses that agree on candidates[0], on
\* promptFeedback and on whether the candidate list is empty, whatever the
\* later candidates; the texts and the function calls of the first candidate
\* are returned in part order.
C26_OnlyFirstCandidateConsulted ==
    fn = "utilities" =>
        /\ Agree(input[1], input[2]) => output[1] = output[2]
        /\ input[1].candidates # <<>> =>
               /\ output[1].extractText =
                      Join(InPartOrder(input[1].candidates[1].parts, "text"),
                           <<"\n\n">>)
               /\ output[1].extractFunctionCalls =
                      InPartOrder(input[1].candidates[1].parts, "functionCall")

C26_Witness ==
    /\ fn = "utilities"
    /\ Agree(input[1], input[2])
    /\ Len(input[1].candidates) = 1
    /\ Len(input[2].candidates) = 2
    /\ input[2].candidates[2].finishReason # input[1].candidates[1].finishReason
    /\ output[1].extractText = <<"y", "\n\n", "x">>
    /\ output[1].extractFunctionCalls = << <<"f">>, <<"g">> >>
    /\ output[1] = output[2]

----------------------------------------------------------------------------
(* Properties of the handler's default case and of giving up *)

\* C29: a tools/call that names an unknown tool is answered with the
\* protocol-level MethodNotFound error, not with a tool result.
C29_UnknownToolIsProtocolError ==
    (hpc = "done" /\ request.apiKey /\ request.name \notin ToolNames) =>
        /\ envelope.kind = "exception"
        /\ envelope.error = McpError(request.name)

\* C30: when uploadFile, listFiles, deleteFile or generateEmbeddings gives
\* up after its four attempts, it throws an error, never undefined, and it
\* has slept only between attempts, not after the last one.
C30_GivesUpWithErrorNoFinalWait ==
    (op \in FetchOps /\ pc = "thrown" /\ requests = maxRetries + 1) =>
        /\ result # Undefined
        /\ result.kind \in {"Error", "FetchError", "SyntaxError"}
        /\ Len(waits) = maxRetries

----------------------------------------------------------------------------
(* Properties of invocations in flight together *)

Finished(i) == calls[i].pc \in {"returned", "thrown"}

\* the outcome is a failure that retryWithBackoff retries
Retried(o) ==
    /\ ~OperationSucceeds(o)
    /\ ~DontRetry(OperationError(o).message)
    /\ ShouldRetry(OperationError(o).message)

\* C28: for every interleaving, the number of attempts, the backoff waits
\* and the result of an invocation are those of its own upstream outcomes
\* alone: one request for each outcome it saw, the waits 1000, 2000, 4000
\* between them, every outcome but the last a retried failure, and the
\* result that of its last outcome, whatever the other invocations met.
C28_InvocationsIndependent ==
    \A i \in Invocations :
        Finished(i) =>
            LET c == calls[i]
                n == Len(c.seen)
            IN  /\ n \in 1..(maxRetriesDefault + 1)
                /\ c.requests = n
                /\ c.waits = [k \in 1..(n - 1) |-> RetryDelay(k - 1)]
                /\ \A k \in 1..(n - 1) : Retried(c.seen[k])
                /\ IF OperationSucceeds(c.seen[n])
                   THEN c.pc = "returned" /\ c.result = JsonValue(c.seen[n].text)
                   ELSE c.pc = "thrown" /\ c.result = OperationError(c.seen[n])

\* the second invocation returns from its first attempt while the first,
\* started before it or after it, is in its second backoff wait
C28_Witness ==
    /\ calls[1].pc = "sleep"
    /\ Len(calls[1].seen) = 2
    /\ calls[1].waits = <<1000>>
    /\ calls[2].pc = "returned"
    /\ calls[2].requests = 1
    /\ calls[2].waits = <<>>

====
